---- MODULE Spec2Model ----
(***************************************************************************)
(* Model of the math_machines library: the MachineCache of Phase entries   *)
(* (src/src/caches.rs, src/src/phases.rs) and the Machine that drives a    *)
(* MathMachine over it with lru_calculate / raw_calculate                  *)
(* (src/src/machines.rs).                                                  *)
(*                                                                         *)
(* CacheSpec drives the public Caches API of one MachineCache directly.    *)
(* Spec drives one Machine through lru_calculate and raw_calculate.        *)
(* TwoWindowSpec drives the same API with Phases of two windows.           *)
(* DocSpec drives the Machine of the doc tests.                            *)
(* PrimeSpec runs PrimesMachine::next_prime one loop iteration at a time.  *)
(***************************************************************************)
EXTENDS Integers, Sequences, FiniteSets, TLC

\* ------------------------------------------------------------------------
\* Bounds of the model
\* ------------------------------------------------------------------------
\* largest index of a Phase pushed through the Caches API
MaxIdx == 2
\* largest value of a window slot of a Phase pushed through the Caches API
MaxVal == 1
\* largest number of entries a cache is allowed to reach
MaxLen == 2
\* largest usage count a cache is allowed to reach
MaxAge == 3
\* largest N handed to lru_calculate / raw_calculate
MaxN == 10
\* largest max_entry_cap a Machine is built with
MaxCap == 3
\* largest argument handed to next_prime
MaxArg == 12
\* bits of an MMInt kept by the model (MMInt is u128 in phases.rs)
UIntBits == 6

\* ------------------------------------------------------------------------
\* Program constants
\* ------------------------------------------------------------------------
PHASE_SIZE == 3
\* max_usage_age of the documented Machines
DocMaxAge == 50
\* max_entry_cap of the documented Machines
DocMaxCap == 128
\* the N of the documented lru_calculate calls
DocN == 26

\* ------------------------------------------------------------------------
\* Phase (src/src/phases.rs)
\* ------------------------------------------------------------------------
Slots == 1..PHASE_SIZE

\* Phase::new(): every slot and the input at Default::default()
NewPhase == [phase |-> [i \in Slots |-> 0], input |-> 0]

\* Phase::result(): &self.phase[0]
Result(p) == p.phase[1]

\* Phase::setinput()
SetInput(p, n) == [p EXCEPT !.input = n]

\* Phase::rotate(): self.phase.rotate_right(k)
Rotate(p, k) ==
    [p EXCEPT !.phase = [i \in Slots |->
        p.phase[((i - 1 + (PHASE_SIZE - 1) * k) % PHASE_SIZE) + 1]]]

\* the derived Ord of [T; PHASE_SIZE]: lexicographic
ArrayLess(a, b) ==
    \E i \in Slots : (\A j \in 1..(i-1) : a[j] = b[j]) /\ a[i] < b[i]

\* #[derive(Ord)] on Phase: field `phase` first, then field `input`
PhaseLess(p, q) ==
    \/ ArrayLess(p.phase, q.phase)
    \/ (p.phase = q.phase /\ p.input < q.input)

\* ------------------------------------------------------------------------
\* MachineCache (src/src/caches.rs)
\* ------------------------------------------------------------------------
\* MachineCache::default()
EmptyMap == [k \in {} |-> 0]
EmptyCache == [entries |-> {}, usages |-> EmptyMap]

\* HashMap::insert / HashMap::remove
MapInsert(m, k, v) == [x \in (DOMAIN m) \cup {k} |-> IF x = k THEN v ELSE m[x]]
MapRemove(m, k) == [x \in (DOMAIN m) \ {k} |-> m[x]]

\* CacheResult<Phase>
Ok(p) == [ok |-> TRUE, val |-> p]
PhaseNotFound == [ok |-> FALSE, val |-> NewPhase]

\* the greatest element of a BTreeSet<Phase>
MaxPhase(S) == CHOOSE p \in S : \A q \in S : q = p \/ PhaseLess(q, p)

\* entries.clone().iter().rev(): the entries, greatest first
RECURSIVE RevIter(_)
RevIter(S) ==
    IF S = {} THEN << >>
    ELSE LET m == MaxPhase(S) IN << m >> \o RevIter(S \ {m})

\* MachineCache::highest_usage()
HighestUsage(usages) ==
    IF DOMAIN usages = {} THEN 0
    ELSE CHOOSE u \in {usages[k] : k \in DOMAIN usages} :
            \A k \in DOMAIN usages : usages[k] <= u

\* MachineCache::len()
CacheLen(c) == Cardinality(c.entries)

\* MachineCache::update_usage(): filt is the set of the inputs whose
\* (input, usage) pair the closure accepts
UpdateUsage(usages, filt) ==
    [k \in DOMAIN usages |->
        IF k \in filt THEN usages[k] + 1 ELSE usages[k]]

\* find_rev recording the usage of the key on a miss as well
FindRevTouchOnMiss(c, key, pred) ==
    LET it   == RevIter(c.entries)
        hits == {i \in 1..Len(it) : it[i] \in pred}
    IN  IF hits # {}
        THEN LET first == CHOOSE i \in hits : \A j \in hits : i <= j
                 aged  == UpdateUsage(c.usages, DOMAIN c.usages)
             IN  [cache |-> [c EXCEPT !.usages = MapInsert(aged, key, 0)],
                  ret   |-> Ok(it[first])]
        ELSE [cache |-> [c EXCEPT !.usages = MapInsert(c.usages, key, 0)],
              ret   |-> PhaseNotFound]

\* MachineCache::find_rev(): pred is the set of the cached Phases the
\* closure accepts
FindRev(c, key, pred) ==
    LET it   == RevIter(c.entries)
        hits == {i \in 1..Len(it) : it[i] \in pred}
    IN  IF hits # {}
        THEN LET first == CHOOSE i \in hits : \A j \in hits : i <= j
                 aged  == UpdateUsage(c.usages, DOMAIN c.usages)
             IN  [cache |-> [c EXCEPT !.usages = MapInsert(aged, key, 0)],
                  ret   |-> Ok(it[first])]
        ELSE [cache |-> c, ret |-> PhaseNotFound]

\* MachineCache::find()
Find(c, key) == FindRev(c, key, {ph \in c.entries : ph.input = key})

\* find_closest with the comparison of its predicate turned around
FindClosestFlipped(c, key) ==
    FindRev(c, key, {ph \in c.entries : ph.input >= key})

\* find_closest with a predicate that accepts every entry
FindClosestAny(c, key) == FindRev(c, key, c.entries)

\* MachineCache::find_closest()
FindClosest(c, key) == FindRev(c, key, {ph \in c.entries : ph.input <= key})

\* MachineCache::push()
Push(c, entry) ==
    LET u1 == MapInsert(c.usages, entry.input, 0)
        e1 == c.entries \cup {entry}
    IN  [entries |-> e1,
         usages  |-> UpdateUsage(u1, {input \in DOMAIN u1 : input # entry.input})]

\* MachineCache::drop()
Drop(c, key) ==
    LET f == Find(c, key)
    IN  IF f.ret.ok
        THEN [cache |-> [entries |-> f.cache.entries \ {f.ret.val},
                         usages  |-> MapRemove(f.cache.usages, f.ret.val.input)],
              ret   |-> f.ret]
        ELSE [cache |-> f.cache, ret |-> f.ret]

\* the while loop of MachineCache::drop_invalid() from position i of the
\* cloned iterator; valid is the set of entries the predicate accepts.
\* valid_usage() panics when the usage count of the entry is missing.
RECURSIVE DropLoop(_, _, _, _, _)
DropLoop(c, it, i, valid, retn) ==
    IF i > Len(it) THEN [cache |-> c, retn |-> retn, panic |-> FALSE]
    ELSE LET p       == it[i]
             removed == [entries |-> c.entries \ {p},
                         usages  |-> MapRemove(c.usages, p.input)]
         IN  IF p \in valid
             THEN IF p.input \notin DOMAIN c.usages
                  THEN [cache |-> c, retn |-> retn, panic |-> TRUE]
                  ELSE IF c.usages[p.input] < HighestUsage(c.usages)
                       THEN DropLoop(c, it, i + 1, valid, retn)
                       ELSE DropLoop(removed, it, i + 1, valid, Append(retn, p))
             ELSE DropLoop(removed, it, i + 1, valid, Append(retn, p))

\* MachineCache::drop_invalid()
DropInvalid(c, valid) == DropLoop(c, RevIter(c.entries), 1, valid, << >>)

\* ------------------------------------------------------------------------
\* MathMachine implementations (src/src/machines.rs)
\* ------------------------------------------------------------------------
\* cmp::max
Max(a, b) == IF a >= b THEN a ELSE b

\* the loop body without the rotation of the window
FibStepNoRotate(p) ==
    [p EXCEPT !.phase[1] = Max(1, p.phase[2] + p.phase[3])]

\* the loop body without the floor of 1 on the new value
FibStepNoMax(p) ==
    LET r == Rotate(p, 1)
    IN  [r EXCEPT !.phase[1] = r.phase[2] + r.phase[3]]

\* body of the for loop of FibonacciMachine::calculate
FibStep(p) ==
    LET r == Rotate(p, 1)
    IN  [r EXCEPT !.phase[1] = Max(1, r.phase[2] + r.phase[3])]

\* the while loop trying the divisor stepper alone, not stepper + 2
RECURSIVE IsPrimeLoopNoTwin(_, _)
IsPrimeLoopNoTwin(n, stepper) ==
    IF stepper * stepper <= n
    THEN IF n % stepper = 0
         THEN FALSE
         ELSE IsPrimeLoopNoTwin(n, stepper + 6)
    ELSE TRUE

\* the while loop of PrimesMachine::is_prime from the given stepper
RECURSIVE IsPrimeLoop(_, _)
IsPrimeLoop(n, stepper) ==
    IF stepper * stepper <= n
    THEN IF n % stepper = 0 \/ n % (stepper + 2) = 0
         THEN FALSE
         ELSE IsPrimeLoop(n, stepper + 6)
    ELSE TRUE

\* is_prime without the test of the multiples of 3
IsPrimeNoThree(n) ==
    IF n <= 1 THEN FALSE
    ELSE IF n <= 3 THEN TRUE
    ELSE IF n % 2 = 0 THEN FALSE
    ELSE IsPrimeLoop(n, 5)

\* PrimesMachine::is_prime
IsPrime(n) ==
    IF n <= 1 THEN FALSE
    ELSE IF n <= 3 THEN TRUE
    ELSE IF n % 2 = 0 \/ n % 3 = 0 THEN FALSE
    ELSE IsPrimeLoop(n, 5)

\* the while loop of PrimesMachine::next_prime
RECURSIVE NextPrimeLoop(_)
NextPrimeLoop(n) == IF ~IsPrime(n) THEN NextPrimeLoop(n + 2) ELSE n

\* PrimesMachine::next_prime
NextPrime(n) ==
    IF n = 0 THEN 2
    ELSE IF n = 1 \/ n = 2 THEN n + 1
    ELSE NextPrimeLoop(n + 2)

\* body of the for loop of PrimesMachine::calculate
PrimesStep(p) == [p EXCEPT !.phase[1] = NextPrime(p.phase[1])]

\* one iteration of the loop of the MathMachine named kind
Step(kind, p) == IF kind = "Fibonacci" THEN FibStep(p) ELSE PrimesStep(p)

\* the loop over the inclusive range start..=stahp
RECURSIVE ForRangeInclusive(_, _, _, _)
ForRangeInclusive(kind, start, stahp, p) ==
    IF start <= stahp
    THEN ForRangeInclusive(kind, start + 1, stahp, Step(kind, p))
    ELSE p

\* `for _ in start..stahp`: the range is empty unless start < stahp
RECURSIVE ForRange(_, _, _, _)
ForRange(kind, start, stahp, p) ==
    IF start < stahp THEN ForRange(kind, start + 1, stahp, Step(kind, p)) ELSE p

\* FibonacciMachine::calculate / PrimesMachine::calculate: always Ok,
\* MachineError has no variant
Calculate(kind, n, phase) ==
    ForRange(kind, phase.input, n, SetInput(phase, n))

\* ------------------------------------------------------------------------
\* Machine (src/src/machines.rs)
\* ------------------------------------------------------------------------
\* is_too_big as documented: the cache holds max_entry_cap entries or more
IsTooBigAsDocumented(cap, c) == CacheLen(c) >= cap

\* Machine::is_too_big
IsTooBig(cap, c) == cap >= CacheLen(c)

\* Machine::is_too_old
IsTooOld(age, c) == age >= HighestUsage(c.usages)

\* Machine::lookup
Lookup(c, n) == FindClosest(c, n)

\* lru_find_phase whose fallback Phase is placed at the index asked for
LruFindPhaseAtN(c, n) ==
    LET f == Lookup(c, n)
    IN  [cache |-> f.cache,
         ret   |-> f.ret,
         phase |-> IF f.ret.ok THEN f.ret.val ELSE SetInput(NewPhase, n)]

\* lru_find_phase
LruFindPhase(c, n) ==
    LET f == Lookup(c, n)
    IN  [cache |-> f.cache,
         ret   |-> f.ret,
         phase |-> IF f.ret.ok THEN f.ret.val ELSE NewPhase]

\* lru_drop_if_capacity_met; Machine::drop_invalid passes |_| true
LruDropIfCapacityMet(cap, age, c) ==
    IF IsTooBig(cap, c) \/ IsTooOld(age, c)
    THEN LET d == DropInvalid(c, c.entries)
         IN  [cache |-> d.cache, swept |-> TRUE, retn |-> d.retn, panic |-> d.panic]
    ELSE [cache |-> c, swept |-> FALSE, retn |-> << >>, panic |-> FALSE]

\* update that does not reach the cache
UpdateSkipped(c, phase) == c

\* Machine::update
Update(c, phase) == Push(c, phase)

\* lru_do_calculation advancing the stored entry itself, not a copy of it
LruDoCalculationInPlace(kind, c, n, phase) ==
    LET calc == Calculate(kind, n, phase)
    IN  [cache |-> Update([c EXCEPT !.entries = @ \ {phase}], calc),
         out |-> Result(calc)]

\* lru_do_calculation
LruDoCalculation(kind, c, n, phase) ==
    LET calc == Calculate(kind, n, phase)
    IN  [cache |-> Update(c, calc), out |-> Result(calc)]

\* raw_calculate
RawCalculate(kind, n) == Result(Calculate(kind, n, NewPhase))

\* ------------------------------------------------------------------------
\* State
\* ------------------------------------------------------------------------
VARIABLES
    cache,          \* MachineCache: [entries, usages]
    machine,        \* Machine.machine: which MathMachine
    max_entry_cap,  \* Machine.max_entry_cap
    max_usage_age,  \* Machine.max_usage_age
    panicked,       \* a panic unwound out of the last call
    last,           \* the last call: arguments, intermediate and final values
    seq             \* k when the lru_calculate calls so far were 0, 1, .., k-1; else -1

vars == << cache, machine, max_entry_cap, max_usage_age, panicked, last, seq >>

Machines == {"Fibonacci", "Primes"}
EntryCaps == 0..MaxCap
UsageAges == {0, 1, DocMaxAge}

\* the Phases handed to push through the Caches API
Windows == {w \in [Slots -> 0..MaxVal] : w[PHASE_SIZE] = 0}
Phases  == [phase : Windows, input : 0..MaxIdx]
Keys    == 0..MaxIdx

InBounds(c) ==
    /\ CacheLen(c) <= MaxLen
    /\ \A k \in DOMAIN c.usages : c.usages[k] <= MaxAge

NoLast ==
    [op |-> "none", key |-> 0, entry |-> NewPhase, valid |-> {},
     ret |-> PhaseNotFound, retn |-> << >>, pre |-> EmptyCache,
     mid |-> EmptyCache, aft |-> EmptyCache, swept |-> FALSE,
     start |-> NewPhase, out |-> 0]

\* ------------------------------------------------------------------------
\* The Caches API on one MachineCache
\* ------------------------------------------------------------------------
CacheInit ==
    /\ cache = EmptyCache
    /\ machine = "Fibonacci"
    /\ max_entry_cap = 0
    /\ max_usage_age = 0
    /\ panicked = FALSE
    /\ last = NoLast
    /\ seq = 0

DoPush(e) ==
    /\ ~panicked
    /\ InBounds(Push(cache, e))
    /\ cache' = Push(cache, e)
    /\ last' = [NoLast EXCEPT !.op = "push", !.entry = e, !.key = e.input,
                              !.pre = cache]
    /\ UNCHANGED << machine, max_entry_cap, max_usage_age, panicked, seq >>

DoFind(k) ==
    /\ ~panicked
    /\ InBounds(Find(cache, k).cache)
    /\ cache' = Find(cache, k).cache
    /\ last' = [NoLast EXCEPT !.op = "find", !.key = k, !.pre = cache,
                              !.ret = Find(cache, k).ret]
    /\ UNCHANGED << machine, max_entry_cap, max_usage_age, panicked, seq >>

DoFindClosest(k) ==
    /\ ~panicked
    /\ InBounds(FindClosest(cache, k).cache)
    /\ cache' = FindClosest(cache, k).cache
    /\ last' = [NoLast EXCEPT !.op = "find_closest", !.key = k, !.pre = cache,
                              !.ret = FindClosest(cache, k).ret]
    /\ UNCHANGED << machine, max_entry_cap, max_usage_age, panicked, seq >>

DoDrop(k) ==
    /\ ~panicked
    /\ InBounds(Find(cache, k).cache)
    /\ cache' = Drop(cache, k).cache
    /\ last' = [NoLast EXCEPT !.op = "drop", !.key = k, !.pre = cache,
                              !.ret = Drop(cache, k).ret]
    /\ UNCHANGED << machine, max_entry_cap, max_usage_age, panicked, seq >>

DoDropInvalid(valid) ==
    /\ ~panicked
    /\ cache' = DropInvalid(cache, valid).cache
    /\ panicked' = DropInvalid(cache, valid).panic
    /\ last' = [NoLast EXCEPT !.op = "drop_invalid", !.valid = valid,
                              !.pre = cache,
                              !.retn = DropInvalid(cache, valid).retn]
    /\ UNCHANGED << machine, max_entry_cap, max_usage_age, seq >>

CacheNext ==
    \/ \E e \in Phases : DoPush(e)
    \/ \E k \in Keys : DoFind(k)
    \/ \E k \in Keys : DoFindClosest(k)
    \/ \E k \in Keys : DoDrop(k)
    \/ \E valid \in SUBSET cache.entries : DoDropInvalid(valid)

CacheSpec == CacheInit /\ [][CacheNext]_vars

\* ------------------------------------------------------------------------
\* The Caches API on the Phases of two windows, the zero window and one
\* that is greater in the order of the entries
\* ------------------------------------------------------------------------
TwoWindows == {NewPhase.phase, [NewPhase.phase EXCEPT ![1] = 1]}
TwoWindowPhases == [phase : TwoWindows, input : 0..MaxIdx]

TwoWindowNext ==
    \/ \E e \in TwoWindowPhases : DoPush(e)
    \/ \E k \in Keys : DoFind(k)
    \/ \E k \in Keys : DoFindClosest(k)
    \/ \E k \in Keys : DoDrop(k)
    \/ \E valid \in SUBSET cache.entries : DoDropInvalid(valid)

TwoWindowSpec == CacheInit /\ [][TwoWindowNext]_vars

\* ------------------------------------------------------------------------
\* One Machine driven through lru_calculate and raw_calculate
\* ------------------------------------------------------------------------
\* Machine::new
Init ==
    /\ cache = EmptyCache
    /\ machine \in Machines
    /\ max_entry_cap \in EntryCaps
    /\ max_usage_age \in UsageAges
    /\ panicked = FALSE
    /\ last = NoLast
    /\ seq = 0

\* lru_calculate sweeping after the new Phase was pushed, not before
LruCalculateSweepLast(n) ==
    LET f == LruFindPhase(cache, n)
        r == LruDoCalculation(machine, f.cache, n, f.phase)
        d == LruDropIfCapacityMet(max_entry_cap, max_usage_age, r.cache)
        rec == [NoLast EXCEPT !.op = "lru_calculate", !.key = n, !.pre = cache,
                              !.ret = f.ret, !.mid = f.cache, !.start = f.phase,
                              !.swept = d.swept, !.retn = d.retn, !.aft = d.cache]
    IN  /\ ~panicked
        /\ InBounds(f.cache)
        /\ InBounds(r.cache)
        /\ cache' = d.cache
        /\ panicked' = d.panic
        /\ last' = [rec EXCEPT !.out = r.out]
        /\ seq' = IF seq = n THEN n + 1 ELSE -1
        /\ UNCHANGED << machine, max_entry_cap, max_usage_age >>

\* lru_calculate(mm, n)
LruCalculate(n) ==
    LET f == LruFindPhase(cache, n)
        d == LruDropIfCapacityMet(max_entry_cap, max_usage_age, f.cache)
        r == LruDoCalculation(machine, d.cache, n, f.phase)
        rec == [NoLast EXCEPT !.op = "lru_calculate", !.key = n, !.pre = cache,
                              !.ret = f.ret, !.mid = f.cache, !.start = f.phase,
                              !.swept = d.swept, !.retn = d.retn, !.aft = d.cache]
    IN  /\ ~panicked
        /\ InBounds(f.cache)
        /\ IF d.panic
           THEN /\ cache' = d.cache
                /\ panicked' = TRUE
                /\ last' = rec
           ELSE /\ InBounds(r.cache)
                /\ cache' = r.cache
                /\ panicked' = FALSE
                /\ last' = [rec EXCEPT !.out = r.out]
        /\ seq' = IF seq = n THEN n + 1 ELSE -1
        /\ UNCHANGED << machine, max_entry_cap, max_usage_age >>

\* raw_calculate going through the lookup of the cache
DoRawCalculateViaCache(n) ==
    /\ ~panicked
    /\ InBounds(LruFindPhase(cache, n).cache)
    /\ cache' = LruFindPhase(cache, n).cache
    /\ last' = [NoLast EXCEPT !.op = "raw_calculate", !.key = n, !.pre = cache,
                              !.start = LruFindPhase(cache, n).phase,
                              !.out = Result(Calculate(machine, n,
                                         LruFindPhase(cache, n).phase))]
    /\ UNCHANGED << machine, max_entry_cap, max_usage_age, panicked, seq >>

\* raw_calculate(mm, n)
DoRawCalculate(n) ==
    /\ ~panicked
    /\ last' = [NoLast EXCEPT !.op = "raw_calculate", !.key = n, !.pre = cache,
                              !.start = NewPhase,
                              !.out = RawCalculate(machine, n)]
    /\ UNCHANGED << cache, machine, max_entry_cap, max_usage_age, panicked, seq >>

Next ==
    \/ \E n \in 0..MaxN : LruCalculate(n)
    \/ \E n \in 0..MaxN : DoRawCalculate(n)

Spec == Init /\ [][Next]_vars

\* ------------------------------------------------------------------------
\* The Machine of the doc tests: Machine::new(.., 128, 50), N up to 26
\* ------------------------------------------------------------------------
DocInit ==
    /\ cache = EmptyCache
    /\ machine \in Machines
    /\ max_entry_cap = DocMaxCap
    /\ max_usage_age = DocMaxAge
    /\ panicked = FALSE
    /\ last = NoLast
    /\ seq = 0

DocNext == \E n \in 0..DocN : LruCalculate(n)

DocSpec == DocInit /\ [][DocNext]_vars

\* ------------------------------------------------------------------------
\* PrimesMachine::next_prime, one iteration of its while loop per step.
\* last.key is the argument and last.out the local n; last.op is
\* "next_prime_loop" while the call is in its loop and "next_prime" once
\* it returned last.out.
\* ------------------------------------------------------------------------
\* MMInt::MAX
UIntMax == 2^UIntBits - 1

PrimeInit ==
    /\ cache = EmptyCache
    /\ machine = "Primes"
    /\ max_entry_cap = 0
    /\ max_usage_age = 0
    /\ panicked = FALSE
    /\ last = NoLast
    /\ seq = 0

\* the call, up to the first test of the loop condition
NextPrimeCall(n) ==
    /\ ~panicked
    /\ last.op # "next_prime_loop"
    /\ last' = IF n = 0
               THEN [NoLast EXCEPT !.op = "next_prime", !.key = n, !.out = 2]
               ELSE IF n = 1 \/ n = 2
               THEN [NoLast EXCEPT !.op = "next_prime", !.key = n, !.out = n + 1]
               ELSE [NoLast EXCEPT !.op = "next_prime_loop", !.key = n,
                                   !.out = n + 2]
    /\ UNCHANGED << cache, machine, max_entry_cap, max_usage_age, panicked, seq >>

\* the loop condition fails: n is returned
NextPrimeReturn ==
    /\ ~panicked
    /\ last.op = "next_prime_loop"
    /\ IsPrime(last.out)
    /\ last' = [last EXCEPT !.op = "next_prime"]
    /\ UNCHANGED << cache, machine, max_entry_cap, max_usage_age, panicked, seq >>

\* the loop body: n += 2
NextPrimeAdd ==
    /\ ~panicked
    /\ last.op = "next_prime_loop"
    /\ ~IsPrime(last.out)
    /\ last.out + 2 <= UIntMax
    /\ last' = [last EXCEPT !.out = @ + 2]
    /\ UNCHANGED << cache, machine, max_entry_cap, max_usage_age, panicked, seq >>

\* n += 2 overflows in a build with overflow checks: the call panics
NextPrimeAddPanics ==
    /\ ~panicked
    /\ last.op = "next_prime_loop"
    /\ ~IsPrime(last.out)
    /\ last.out + 2 > UIntMax
    /\ panicked' = TRUE
    /\ UNCHANGED << cache, machine, max_entry_cap, max_usage_age, last, seq >>

\* n += 2 overflows in a build without overflow checks: n wraps around
NextPrimeAddWraps ==
    /\ ~panicked
    /\ last.op = "next_prime_loop"
    /\ ~IsPrime(last.out)
    /\ last.out + 2 > UIntMax
    /\ last' = [last EXCEPT !.out = (@ + 2) % (UIntMax + 1)]
    /\ UNCHANGED << cache, machine, max_entry_cap, max_usage_age, panicked, seq >>

PrimeNext ==
    \/ \E n \in 0..MaxArg : NextPrimeCall(n)
    \/ NextPrimeReturn
    \/ NextPrimeAdd
    \/ NextPrimeAddPanics
    \/ NextPrimeAddWraps

PrimeSpec == PrimeInit /\ [][PrimeNext]_vars

\* ------------------------------------------------------------------------
\* Properties
\* ------------------------------------------------------------------------
\* the indices of the stored entries
Indices(c) == {p.input : p \in c.entries}

\* every stored entry has a usage count and every usage count an entry,
\* and no two stored entries share an index
WellFormed(c) ==
    /\ Indices(c) = DOMAIN c.usages
    /\ \A p, q \in c.entries : p.input = q.input => p = q

\* C1: find_closest(q) returns the stored entry with the largest index <= q,
\* and misses exactly when no stored entry has an index <= q.
C1_FloorLookup ==
    last.op = "find_closest" =>
        LET below == {p \in last.pre.entries : p.input <= last.key}
        IN  /\ last.ret.ok <=> below # {}
            /\ last.ret.ok =>
                  /\ last.ret.val \in below
                  /\ \A p \in below : p.input <= last.ret.val.input

\* whether lru_calculate's sweep is due by the documented thresholds
TriggerDue(cap, age, c) ==
    CacheLen(c) >= cap \/ HighestUsage(c.usages) >= age

\* C2: in every lru_calculate call the sweep runs exactly when, after the
\* lookup, len() >= max_entry_cap or highest_usage() >= max_usage_age; when
\* neither holds the call removes no entry.
C2_EvictionTrigger ==
    last.op = "lru_calculate" =>
        /\ last.swept <=> TriggerDue(max_entry_cap, max_usage_age, last.mid)
        /\ ~TriggerDue(max_entry_cap, max_usage_age, last.mid)
              => last.pre.entries \subseteq cache.entries

\* C3: a sweep (drop_invalid with the predicate |_| true) of a non-empty cache
\* whose entries each have their own usage count removes exactly the entries
\* whose count equals the greatest count before the sweep; every entry with a
\* strictly smaller count is still stored afterwards.
C3_SingleVictim ==
    (/\ last.op = "drop_invalid"
     /\ last.pre.entries # {}
     /\ last.valid = last.pre.entries
     /\ WellFormed(last.pre)) =>
        LET top == HighestUsage(last.pre.usages)
        IN  cache.entries =
                {p \in last.pre.entries : last.pre.usages[p.input] < top}

C5_StalenessOnLookup ==
    (last.op \in {"find", "find_closest"} /\ last.ret.ok) =>
        LET e == last.ret.val
        IN  /\ e.input \in DOMAIN cache.usages
            /\ cache.usages[e.input] = 0
            /\ \A p \in cache.entries \ {e} :
                  /\ p.input \in DOMAIN cache.usages
                  /\ p.input \in DOMAIN last.pre.usages
                  /\ cache.usages[p.input] = last.pre.usages[p.input] + 1

\* C6: after push(c) the usage count of c's index is 0 and the count of every
\* other stored entry is 1 more than before the push.
C6_StalenessOnInsert ==
    last.op = "push" =>
        /\ last.entry.input \in DOMAIN cache.usages
        /\ cache.usages[last.entry.input] = 0
        /\ \A p \in last.pre.entries \ {last.entry} :
              /\ p.input \in DOMAIN cache.usages
              /\ p.input \in DOMAIN last.pre.usages
              /\ cache.usages[p.input] = last.pre.usages[p.input] + 1

\* C7: the indices of the stored entries are exactly the keys of the usages
\* map, after any sequence of push, find, find_closest, drop, drop_invalid.
C7_EntryAgeBijection == Indices(cache) = DOMAIN cache.usages

\* C8: at most one stored entry has a given index; a push of an entry whose
\* index is stored replaces it, so len() is the number of distinct indices.
C8_UniqueByIndex ==
    /\ \A p, q \in cache.entries : p.input = q.input => p = q
    /\ CacheLen(cache) = Cardinality(Indices(cache))
    /\ last.op = "push" =>
          {p \in cache.entries : p.input = last.entry.input} = {last.entry}

\* C9: a Fibonacci Machine built with max_entry_cap 3 and max_usage_age 50,
\* after lru_calculate of 0, 1, .., 10 in that order, holds at most 3 entries,
\* those of the indices 8, 9 and 10.
C9_CapacityScenario ==
    (/\ machine = "Fibonacci"
     /\ max_entry_cap = 3
     /\ max_usage_age = DocMaxAge
     /\ seq = 11) =>
        /\ CacheLen(cache) <= 3
        /\ Indices(cache) = {8, 9, 10}

\* C11: when the lookup of lru_calculate(n) misses, the calculation starts
\* from the Phase of Phase::new() (index 0, every slot 0), the call returns
\* (Ok, the value calculated from that Phase) and PhaseNotFound stays inside.
C11_MissNeverSurfaced ==
    (last.op = "lru_calculate" /\ ~last.ret.ok) =>
        /\ last.start = [phase |-> [i \in Slots |-> 0], input |-> 0]
        /\ ~panicked
        /\ last.out = Result(Calculate(machine, last.key, NewPhase))

\* C11 witness: a miss on a cache that stores entries, all above the index
C11_Witness ==
    /\ last.op = "lru_calculate"
    /\ ~last.ret.ok
    /\ last.pre.entries # {}
    /\ last.key > 0
    /\ ~panicked

\* C12 as stated: on a Fibonacci Machine lru_calculate(0) = 1,
\* lru_calculate(5) = 8 and lru_calculate(10) = 89.
C12_FibonacciValuesStated ==
    (last.op = "lru_calculate" /\ machine = "Fibonacci" /\ ~panicked) =>
        /\ last.key = 0 => last.out = 1
        /\ last.key = 5 => last.out = 8
        /\ last.key = 10 => last.out = 89

\* C12 amended: on a Fibonacci Machine lru_calculate(0) = 0,
\* lru_calculate(5) = 5 and lru_calculate(10) = 55.
C12_FibonacciValues ==
    (last.op = "lru_calculate" /\ machine = "Fibonacci" /\ ~panicked) =>
        /\ last.key = 0 => last.out = 0
        /\ last.key = 5 => last.out = 5
        /\ last.key = 10 => last.out = 55

\* C12 witness: the three calls, the one of 10 resumed from the entry of 5
C12_Witness ==
    /\ last.op = "lru_calculate"
    /\ machine = "Fibonacci"
    /\ ~panicked
    /\ last.key = 10
    /\ last.ret.ok
    /\ last.start.input = 5
    /\ last.out = 55

\* the Fibonacci numbers with F(1) = F(2) = 1: FibFrom(a, b, k) is F(j + k)
\* when a = F(j) and b = F(j + 1)
RECURSIVE FibFrom(_, _, _)
FibFrom(a, b, k) == IF k = 0 THEN a ELSE FibFrom(b, a + b, k - 1)
FibNumber(n) == FibFrom(0, 1, n)

\* C13: on the Fibonacci Machine of the doc test (128, 50) lru_calculate(n)
\* is the n-th Fibonacci number, F(1) = F(2) = 1, for every n in 1..26, and
\* lru_calculate(26) = 121393.
C13_FibonacciDocTest ==
    (/\ last.op = "lru_calculate"
     /\ machine = "Fibonacci"
     /\ last.key \in 1..DocN) =>
        /\ ~panicked
        /\ last.out = FibNumber(last.key)
        /\ last.key = DocN => last.out = 121393

\* C13 witness: the call of the doc test, on the fresh Machine
C13_Witness ==
    /\ last.op = "lru_calculate"
    /\ machine = "Fibonacci"
    /\ max_entry_cap = DocMaxCap
    /\ max_usage_age = DocMaxAge
    /\ last.pre = EmptyCache
    /\ last.key = DocN
    /\ last.out = 121393

\* C14 as stated: on a Primes Machine lru_calculate(0) = 2,
\* lru_calculate(1) = 3 and lru_calculate(5) = 13.
C14_PrimesValuesStated ==
    (last.op = "lru_calculate" /\ machine = "Primes" /\ ~panicked) =>
        /\ last.key = 0 => last.out = 2
        /\ last.key = 1 => last.out = 3
        /\ last.key = 5 => last.out = 13

\* C14 amended: on a Primes Machine lru_calculate(0) = 0,
\* lru_calculate(1) = 2 and lru_calculate(5) = 11.
C14_PrimesValues ==
    (last.op = "lru_calculate" /\ machine = "Primes" /\ ~panicked) =>
        /\ last.key = 0 => last.out = 0
        /\ last.key = 1 => last.out = 2
        /\ last.key = 5 => last.out = 11

\* C14 witness: the call of 5, resumed from the entry of 1
C14_Witness ==
    /\ last.op = "lru_calculate"
    /\ machine = "Primes"
    /\ ~panicked
    /\ last.key = 5
    /\ last.ret.ok
    /\ last.start.input = 1
    /\ last.out = 11

\* the primes by their definition, and the n-th of them counted from 1
PrimeNumber(k) == k > 1 /\ \A d \in 2..(k - 1) : k % d # 0
NthPrime(n) ==
    CHOOSE p \in 2..(4 * n + 2) :
        PrimeNumber(p) /\ Cardinality({q \in 2..p : PrimeNumber(q)}) = n

\* C15: on the Primes Machine of the doc test (128, 50) lru_calculate(n) is
\* the n-th prime, 2 being the 1st, for every n in 1..26, and
\* lru_calculate(26) = 101.
C15_PrimesDocTest ==
    (/\ last.op = "lru_calculate"
     /\ machine = "Primes"
     /\ last.key \in 1..DocN) =>
        /\ ~panicked
        /\ last.out = NthPrime(last.key)
        /\ last.key = DocN => last.out = 101

\* C15 witness: the call of the doc test, on the fresh Machine
C15_Witness ==
    /\ last.op = "lru_calculate"
    /\ machine = "Primes"
    /\ max_entry_cap = DocMaxCap
    /\ max_usage_age = DocMaxAge
    /\ last.pre = EmptyCache
    /\ last.key = DocN
    /\ last.out = 101

\* C16: raw_calculate(n) changes neither the entries nor any usage count of
\* the cache and calculates from the Phase of Phase::new(), whatever the
\* cache holds.
C16_RawLeavesCache ==
    last.op = "raw_calculate" =>
        /\ cache = last.pre
        /\ last.start = NewPhase
        /\ last.out = Result(Calculate(machine, last.key, NewPhase))

\* C16 witness: raw_calculate(n) on a cache that stores an entry the
\* calculation could have resumed from
C16_Witness ==
    /\ last.op = "raw_calculate"
    /\ \E p \in cache.entries : 0 < p.input /\ p.input <= last.key
    /\ last.out > 0

\* C17: the Phase lru_calculate(n) hands to calculate has an index <= n: it
\* is the Phase the lookup returned or the one of Phase::new().
C17_CalculatorPrecondition ==
    last.op = "lru_calculate" =>
        /\ last.start.input <= last.key
        /\ last.start = (IF last.ret.ok THEN last.ret.val ELSE NewPhase)
        /\ last.ret.ok => last.ret.val \in last.pre.entries

\* C17 witness: a hit on a cache that also stores an entry above the index
C17_Witness ==
    /\ last.op = "lru_calculate"
    /\ last.ret.ok
    /\ \E p \in last.pre.entries : p.input > last.key

\* the greatest usage count among the stored entries, 0 when none has one
HighestStored(c) ==
    LET ages == {c.usages[p.input] :
                    p \in {q \in c.entries : q.input \in DOMAIN c.usages}}
    IN  IF ages = {} THEN 0
        ELSE CHOOSE u \in ages : \A v \in ages : v <= u

\* C18: in every reachable cache state highest_usage() is the greatest usage
\* count of the stored entries, and 0 when no entry is stored.
C18_HighestUsage ==
    /\ HighestUsage(cache.usages) = HighestStored(cache)
    /\ cache.entries = {} => HighestUsage(cache.usages) = 0

\* C19: after every lru_calculate(n) that returns, the cache stores an entry
\* of index n whose result() is the value returned, and the usage count of n
\* is 0.
C19_WriteBack ==
    (last.op = "lru_calculate" /\ ~panicked) =>
        /\ \E p \in cache.entries : p.input = last.key /\ Result(p) = last.out
        /\ last.key \in DOMAIN cache.usages
        /\ cache.usages[last.key] = 0

\* C19 witness: a value written back next to an older entry
C19_Witness ==
    /\ last.op = "lru_calculate"
    /\ ~panicked
    /\ CacheLen(cache) = 2
    /\ last.out > 1
    /\ \E p \in cache.entries : p.input = last.key /\ Result(p) = last.out

\* C20: when lru_calculate(n) resumes from the stored entry of an index
\* m < n and the sweep does not remove that entry, the entry is stored after
\* the call with index m and the window it had before the call.
C20_LookupCopies ==
    (/\ last.op = "lru_calculate"
     /\ ~panicked
     /\ last.ret.ok
     /\ last.ret.val.input < last.key
     /\ last.ret.val \in last.aft.entries) =>
        /\ last.ret.val \in cache.entries
        /\ {p \in cache.entries : p.input = last.ret.val.input} = {last.ret.val}

\* C20 witness: a call that resumed from an entry the sweep left in place
\* and moved the working Phase away from it
C20_Witness ==
    /\ last.op = "lru_calculate"
    /\ ~panicked
    /\ last.ret.ok
    /\ last.ret.val.input < last.key
    /\ last.ret.val \in last.aft.entries
    /\ last.ret.val \in cache.entries
    /\ \E p \in cache.entries :
          p.input = last.key /\ p.phase # last.ret.val.phase

\* the usages after a lookup that hit with key n
TouchedBy(usages, n) ==
    [k \in DOMAIN usages \cup {n} |-> IF k = n THEN 0 ELSE usages[k] + 1]

\* the entries listed in the Vec a sweep returns
Removed(retn) == {retn[i] : i \in 1..Len(retn)}

\* ------------------------------------------------------------------------
\* C21: every lru_calculate(n) runs, in this order and once each, the
\* lookup, the trigger check with its sweep, the calculation and the
\* push.  The lookup only touches usages: the cache after it has the
\* entries of the cache before it, and on a hit every usage one higher and
\* the usage of n at 0.  The sweep works on that cache: it removes only
\* entries stored before the call, each of them listed in what it returns,
\* and it is the sweep of the usages the lookup left.  The one entry that
\* comes on top of what the sweep left is the Phase calculated from the
\* Phase the lookup chose, pushed after the sweep, so stored with usage 0
\* and never among the entries the sweep removed in this call.
\* ------------------------------------------------------------------------
C21_StepOrder ==
    (last.op = "lru_calculate" /\ ~panicked) =>
        LET calc == Calculate(machine, last.key, last.start)
        IN  /\ last.mid.entries = last.pre.entries
            /\ last.mid.usages = IF last.ret.ok
                                 THEN TouchedBy(last.pre.usages, last.key)
                                 ELSE last.pre.usages
            /\ last.aft.entries = last.mid.entries \ Removed(last.retn)
            /\ Removed(last.retn) \subseteq last.pre.entries
            /\ IF last.swept
               THEN last.aft = DropInvalid(last.mid, last.mid.entries).cache
               ELSE last.aft = last.mid /\ last.retn = << >>
            /\ cache.entries = last.aft.entries \cup {calc}
            /\ cache.usages = [k \in DOMAIN last.aft.usages \cup {last.key} |->
                                 IF k = last.key THEN 0
                                 ELSE last.aft.usages[k] + 1]

\* a call whose lookup hit, whose sweep removed the very entry the lookup
\* returned, and whose new Phase is stored after it
C21_Witness ==
    /\ last.op = "lru_calculate"
    /\ ~panicked
    /\ last.ret.ok
    /\ last.swept
    /\ last.ret.val \in Removed(last.retn)
    /\ last.ret.val.input < last.key
    /\ \E p \in cache.entries : p.input = last.key /\ Result(p) = last.out

\* the smallest prime above n (there is one up to 2n + 2)
SmallestPrimeAbove(n) ==
    CHOOSE p \in (n + 1)..(2 * n + 2) :
        PrimeNumber(p) /\ \A q \in (n + 1)..(p - 1) : ~PrimeNumber(q)

\* ------------------------------------------------------------------------
\* C22: next_prime(n) returns, for every n, the smallest prime above n: a
\* call never panics, and the value it returns is that prime.
\* ------------------------------------------------------------------------
C22_NextPrimeTotal ==
    /\ ~(panicked /\ last.op = "next_prime_loop")
    /\ last.op = "next_prime" => last.out = SmallestPrimeAbove(last.key)

\* k iterations of the loop body of the MathMachine named kind
RECURSIVE StepTimes(_, _, _)
StepTimes(kind, k, p) ==
    IF k = 0 THEN p ELSE StepTimes(kind, k - 1, Step(kind, p))

\* ------------------------------------------------------------------------
\* C23: calculate(n, phase) on a Phase of index i <= n runs the loop body
\* exactly n - i times and returns a Phase of index n: the Phase stored by
\* lru_calculate(n) is the Phase the lookup chose after n - i iterations
\* with its index set to n, and has the window of that Phase when i = n.
\* ------------------------------------------------------------------------
C23_IterationCount ==
    (last.op = "lru_calculate" /\ ~panicked) =>
        LET i == last.start.input
            stepped == StepTimes(machine, last.key - i, last.start)
        IN  /\ i <= last.key
            /\ SetInput(stepped, last.key) \in cache.entries
            /\ \A p \in cache.entries :
                   p.input = last.key => p = SetInput(stepped, last.key)
            /\ Result(stepped) = last.out
            /\ i = last.key => stepped.phase = last.start.phase
            /\ \A k \in 0..MaxN :
                   k # last.key - i =>
                       StepTimes(machine, k, last.start) # stepped

\* a call resumed from a stored Phase at least two indices below N
C23_Witness ==
    /\ last.op = "lru_calculate"
    /\ ~panicked
    /\ last.ret.ok
    /\ last.start.input >= 1
    /\ last.key - last.start.input >= 2
    /\ last.out > 1

\* ------------------------------------------------------------------------
\* C24: drop(key) on a cache that stores a Phase of index key returns that
\* Phase, and afterwards neither the entries nor the usages hold key;
\* drop(key) on a cache that stores no Phase of index key returns
\* PhaseNotFound and leaves the entries and the usages as they were.
\* ------------------------------------------------------------------------
C24_Drop ==
    last.op = "drop" =>
        IF last.key \in Indices(last.pre)
        THEN /\ last.ret.ok
             /\ last.ret.val \in last.pre.entries
             /\ last.ret.val.input = last.key
             /\ last.key \notin Indices(cache)
             /\ last.key \notin DOMAIN cache.usages
        ELSE /\ ~last.ret.ok
             /\ cache = last.pre

\* ------------------------------------------------------------------------
\* C25: a find or find_closest that returns PhaseNotFound leaves the
\* entries and every usage as they were, and records no usage for its key.
\* ------------------------------------------------------------------------
C25_MissUnchanged ==
    (last.op \in {"find", "find_closest"} /\ ~last.ret.ok) =>
        /\ cache.entries = last.pre.entries
        /\ cache.usages = last.pre.usages

\* a miss on a cache that stores entries and usages, none for the key
C25_Witness ==
    /\ last.op \in {"find", "find_closest"}
    /\ ~last.ret.ok
    /\ last.pre.entries # {}
    /\ \E k \in DOMAIN last.pre.usages : last.pre.usages[k] > 0
    /\ last.key \notin DOMAIN cache.usages

C27_BoundedSize ==
    last.op = "lru_calculate" =>
        CacheLen(cache) <= Max(1, max_entry_cap)

\* ------------------------------------------------------------------------
\* C28: in every sequence of push, find, find_closest, drop and
\* drop_invalid calls, each Phase a sweep visits has a usage count when
\* valid_usage reads it: no drop_invalid call panics.
\* ------------------------------------------------------------------------
C28_SweepNeverPanics ==
    last.op = "drop_invalid" => ~panicked

====
